---- MODULE Spec2Model ----
(***************************************************************************)
(* tap-spreadsheets-anywhere: the incremental sync state machine of        *)
(* tap_spreadsheets_anywhere/__init__.py (sync), with the file selector    *)
(* and the file writer of file_utils it calls; then the schema override    *)
(* (merge_dicts, override_schema_with_config), discover() and main() with  *)
(* the configuration contract, each with a specification of its own.       *)
(*                                                                         *)
(* One behaviour is the lifetime of one configuration: a sequence of tap   *)
(* invocations (runs), each of which loads the state persisted by the      *)
(* previous one, walks the selected streams of the catalog and, per        *)
(* stream, the candidate files in order. A run may be terminated at any    *)
(* step. Timestamps are integers; their ISO-8601 text is a tagged pair.    *)
(***************************************************************************)
EXTENDS Integers, Sequences, FiniteSets, TLC

\* ---------------------------------------------------------------- bounds
MaxFiles == 2      \* file keys (paths) 1..MaxFiles per table
MaxTime == 3       \* modification times 1..MaxTime
MaxRecs == 2       \* records per file 0..MaxRecs
MaxBudget == 3     \* max_records_per_run is -1 or in 1..MaxBudget
MaxRuns == 2       \* tap invocations per behaviour
MaxTables == 3     \* tables declared in config['tables'] for discover()

\* activate_version = None (a table that is not full_table_replace)
None == 0

VARIABLES
    config,            \* config['tables'], by table name
    files,             \* the storage location of each table: its file objects
    catalog,           \* catalog.get_selected_streams(state): stream ids, in order
    persisted,         \* the state the last singer.write_state made durable
    state,             \* the state dict of the running sync()
    now,               \* time.time() * 1000
    pc,                \* position of the run: idle, next_stream, write_file, write_state, end_stream
    si,                \* index in catalog of the stream being synced
    target_files,      \* the candidate files of the stream being synced
    fi,                \* index in target_files of t_file
    written,           \* records_synced inside the running write_file call
    records_streamed,  \* records_streamed of the stream being synced
    activate_version,  \* activate_version of the stream being synced
    out,               \* messages written to stdout by the current run
    ends,              \* how each finished run ended: "normal", "killed" or "failed"
    begun,             \* per table: begin-epoch signals written, over all runs
    ended,             \* per table: end-epoch signals written by the current run
    broke,             \* the tables whose file loop the current run left by break
    done,              \* <<table, key>> of the files streamed to their end in the current run
    completed,         \* <<table, key>> of the files streamed to their end in some run
    atStart,           \* persisted, completed and begun as the current run found them
    raw,               \* main(): the configuration file as given, and the mode of the invocation
    disc,              \* discover(): the declared tables, the loop position, the streams so far
    ov                 \* override_schema_with_config: the arguments and the results of its calls

vars == <<config, files, catalog, persisted, state, now, pc, si, target_files, fi,
          written, records_streamed, activate_version, out, ends, begun, ended,
          broke, done, completed, atStart, raw, disc, ov>>

\* the variables sync() never touches
aux == <<raw, disc, ov>>

\* ------------------------------------------------------------ conversions
\* datetime.isoformat(): the text of a timestamp
Iso(t) == <<"iso", t>>

\* dateutil.parser.parse(): the timestamp of a text
Parse(s) == s[2]

\* ------------------------------------------------------------------ data
\* the names of the tables config['tables'] declares
Tables == DOMAIN config
NoConfigStream == "nocfg"
EmptyDict == [s \in {} |-> 0]

TableSpecs ==
    [start_date : {Iso(1)},
     max_records_per_run : {0 - 1} \cup 1..MaxBudget,
     full_table_replace : BOOLEAN]

\* the keys in use are 1..k: a key is only a name, ordered against the other keys
KeySets == {1..k : k \in 0..MaxFiles}
FileAttrs == [last_modified : 1..MaxTime, nrecords : 0..MaxRecs]

\* every set of file objects with distinct keys
Worlds ==
    UNION {{{[key |-> k, last_modified |-> g[k].last_modified, nrecords |-> g[k].nrecords]
              : k \in K} : g \in [K -> FileAttrs]} : K \in KeySets}

\* ------------------------------------------------------------- file_utils
\* order of the listing: modification time ascending, ties by key
Before(a, b) ==
    \/ a.last_modified < b.last_modified
    \/ a.last_modified = b.last_modified /\ a.key < b.key

RECURSIVE SortFiles(_)
SortFiles(S) ==
    IF S = {} THEN << >>
    ELSE LET first == CHOOSE a \in S : \A b \in S \ {a} : Before(a, b)
         IN  <<first>> \o SortFiles(S \ {first})

\* file_utils.get_matching_objects(table_spec, modified_since)
get_matching_objects(table, modified_since) ==
    SortFiles({f \in files[table] : f.last_modified > modified_since})

\* file_utils.write_file: the loop stops once max_records > 0 records are written
WriteFileStops(max_records, n) == 0 < max_records /\ max_records <= n

\* ---------------------------------------------------------------- sync()
\* table_spec = next((x for x in config['tables'] if x['name'] == id), None)
HasTableSpec(id) == id \in DOMAIN config

\* mutant: the test inverted ('modified_since' in ...)
IsInitialSyncInverted(st, id) ==
    /\ id \in DOMAIN st
    /\ "modified_since" \in DOMAIN st[id]

\* is_initial_sync = 'modified_since' not in state.get(id, {})
IsInitialSync(st, id) ==
    \/ id \notin DOMAIN st
    \/ "modified_since" \notin DOMAIN st[id]

\* mutant: the persisted watermark is ignored, every run selects from start_date
ModifiedSinceStartDate(st, id) == Parse(config[id].start_date)

\* state.get(id, {}).get('modified_since') or table_spec['start_date'], parsed
ModifiedSince(st, id) ==
    IF id \in DOMAIN st /\ "modified_since" \in DOMAIN st[id]
    THEN Parse(st[id].modified_since)
    ELSE Parse(config[id].start_date)

\* mutant: the checkpoint is one tick short of the file's modification time
SetStateEarlier(st, id, f) ==
    [s \in DOMAIN st \cup {id} |->
        IF s = id THEN [modified_since |-> Iso(f.last_modified - 1)] ELSE st[s]]

\* mutant: the state is replaced by a dict holding the entry of this table alone
SetStateAlone(st, id, f) ==
    [s \in {id} |-> [modified_since |-> Iso(f.last_modified)]]

\* state[id] = {'modified_since': t_file['last_modified'].isoformat()}
SetState(st, id, f) ==
    [s \in DOMAIN st \cup {id} |->
        IF s = id THEN [modified_since |-> Iso(f.last_modified)] ELSE st[s]]

\* mutant: the budget test with < for <=
BudgetReachedStrict(max_records_per_run, streamed) ==
    0 < max_records_per_run /\ max_records_per_run < streamed

\* 0 < max_records_per_run <= records_streamed
BudgetReached(max_records_per_run, streamed) ==
    0 < max_records_per_run /\ max_records_per_run <= streamed

SchemaMsg(id) == [type |-> "SCHEMA", stream |-> id]
ActivateVersionMsg(id, v) == [type |-> "ACTIVATE_VERSION", stream |-> id, version |-> v]
RecordMsg(id, f, lineno, v) ==
    [type |-> "RECORD", stream |-> id, key |-> f.key, lineno |-> lineno, version |-> v]
StateMsg(st) == [type |-> "STATE", value |-> st]

stream == catalog[si]
t_file == target_files[fi]
\* mutant: every write_file call is given the whole budget
MaxRecordsWholeBudget == config[stream].max_records_per_run

\* max_records=max_records_per_run-records_streamed
max_records == config[stream].max_records_per_run - records_streamed

\* mutant: the begin epoch is written before the schema
BeginMsgsEpochFirst(id, initial, v) ==
    (IF initial THEN <<ActivateVersionMsg(id, v)>> ELSE << >>) \o <<SchemaMsg(id)>>

\* singer.write_schema, then the begin epoch of an initial full-replace sync
BeginMsgs(id, initial, v) ==
    <<SchemaMsg(id)>> \o (IF initial THEN <<ActivateVersionMsg(id, v)>> ELSE << >>)

\* mutant: a stream without a config block ends the loop over the streams
AfterSkipReturns(i) == Len(catalog) + 1

\* the stream loop goes on with the next stream after a skipped one
AfterSkip(i) == i + 1

\* if full_table_replace: singer.write_message(activate_version_message)
EndEpochMsgs(id, v) ==
    IF config[id].full_table_replace THEN <<ActivateVersionMsg(id, v)>> ELSE << >>

\* the for loop over target_files: the next file, or the end of the loop
LoopPc(files_, i) == IF i <= Len(files_) THEN "write_file" ELSE "end_stream"

\* main(), discover() and override_schema_with_config at rest
NoRaw == [mode |-> "sync"]
NoDisc == [pc |-> "idle"]
NoOv == [pc |-> "idle"]

\* the state before the first invocation: the state file as found, nothing written
Start(tables, worlds, streams, st) ==
    /\ config = tables
    /\ files = worlds
    /\ catalog = streams
    /\ persisted = st
    /\ state = st
    /\ now = 1
    /\ pc = "idle"
    /\ si = 1
    /\ target_files = << >>
    /\ fi = 1
    /\ written = 0
    /\ records_streamed = 0
    /\ activate_version = None
    /\ out = << >>
    /\ ends = << >>
    /\ begun = [t \in Tables |-> 0]
    /\ ended = [t \in Tables |-> 0]
    /\ broke = {}
    /\ done = {}
    /\ completed = {}
    /\ atStart = [persisted |-> st, completed |-> {}, begun |-> [t \in Tables |-> 0]]

Init == \E tables \in [{"t1"} -> TableSpecs], worlds \in [{"t1"} -> Worlds] :
            /\ Start(tables, worlds, <<NoConfigStream, "t1">>, EmptyDict)
            /\ raw = NoRaw
            /\ disc = NoDisc
            /\ ov = NoOv

\* scenario A of the design: start_date S, two files of 10 records at T1 < T2 after S,
\* max_records_per_run = 15
InitA ==
    /\ Start([t \in {"t1"} |-> [start_date |-> Iso(1), max_records_per_run |-> 15,
                                 full_table_replace |-> FALSE]],
             [t \in {"t1"} |-> {[key |-> 1, last_modified |-> 2, nrecords |-> 10],
                                 [key |-> 2, last_modified |-> 3, nrecords |-> 10]}],
             <<NoConfigStream, "t1">>, EmptyDict)
    /\ raw = NoRaw
    /\ disc = NoDisc
    /\ ov = NoOv

\* main(): a new invocation loads the persisted state and calls sync()
StartRun ==
    /\ pc = "idle"
    /\ Len(ends) < MaxRuns
    /\ state' = persisted
    /\ now' = now + 1
    /\ pc' = "next_stream"
    /\ si' = 1
    /\ target_files' = << >>
    /\ fi' = 1
    /\ written' = 0
    /\ records_streamed' = 0
    /\ activate_version' = None
    /\ out' = << >>
    /\ ended' = [t \in Tables |-> 0]
    /\ broke' = {}
    /\ done' = {}
    /\ atStart' = [persisted |-> persisted, completed |-> completed, begun |-> begun]
    /\ UNCHANGED <<config, files, catalog, persisted, ends, begun, completed>>
    /\ UNCHANGED aux

\* sync(), lines 97-135: a stream with a config block: schema, begin epoch, selection
BeginStream ==
    /\ pc = "next_stream"
    /\ si <= Len(catalog)
    /\ HasTableSpec(stream)
    /\ LET ftr == config[stream].full_table_replace
           initial == ftr /\ IsInitialSync(state, stream)
           version == IF ftr THEN now ELSE None
           selected == get_matching_objects(stream, ModifiedSince(state, stream))
       IN  /\ activate_version' = version
           /\ out' = out \o BeginMsgs(stream, initial, version)
           /\ begun' = [begun EXCEPT ![stream] = @ + (IF initial THEN 1 ELSE 0)]
           /\ target_files' = selected
           /\ pc' = LoopPc(selected, 1)
    /\ records_streamed' = 0
    /\ fi' = 1
    /\ written' = 0
    /\ UNCHANGED <<config, files, catalog, persisted, state, now, si, ends, ended,
                   broke, done, completed, atStart>>
    /\ UNCHANGED aux

\* sync(), lines 155-156: a stream without a config block is skipped
SkipStream ==
    /\ pc = "next_stream"
    /\ si <= Len(catalog)
    /\ ~HasTableSpec(stream)
    /\ si' = AfterSkip(si)
    /\ UNCHANGED <<config, files, catalog, persisted, state, now, pc, target_files, fi,
                   written, records_streamed, activate_version, out, ends, begun, ended,
                   broke, done, completed, atStart>>
    /\ UNCHANGED aux

\* write_file: one more record of t_file is written
WriteRecord ==
    /\ pc = "write_file"
    /\ written < t_file.nrecords
    /\ ~WriteFileStops(max_records, written)
    /\ out' = Append(out, RecordMsg(stream, t_file, written + 1, activate_version))
    /\ written' = written + 1
    /\ UNCHANGED <<config, files, catalog, persisted, state, now, pc, si, target_files,
                   fi, records_streamed, activate_version, ends, begun, ended, broke,
                   done, completed, atStart>>
    /\ UNCHANGED aux

\* write_file returns; sync(), lines 137-147: count, budget test, state assignment
WriteFileReturn ==
    /\ pc = "write_file"
    /\ written = t_file.nrecords \/ WriteFileStops(max_records, written)
    /\ records_streamed' = records_streamed + written
    /\ done' = IF written = t_file.nrecords
               THEN done \cup {<<stream, t_file.key>>} ELSE done
    /\ completed' = IF written = t_file.nrecords
                    THEN completed \cup {<<stream, t_file.key>>} ELSE completed
    /\ IF BudgetReached(config[stream].max_records_per_run, records_streamed + written)
       THEN /\ pc' = "end_stream"
            /\ broke' = broke \cup {stream}
            /\ state' = state
       ELSE /\ pc' = "write_state"
            /\ broke' = broke
            /\ state' = SetState(state, stream, t_file)
    /\ UNCHANGED <<config, files, catalog, persisted, now, si, target_files, fi, written,
                   activate_version, out, ends, begun, ended, atStart>>
    /\ UNCHANGED aux

\* write_file raises: sync() has no handler, the exception ends the invocation
WriteFileRaises ==
    /\ pc = "write_file"
    /\ pc' = "idle"
    /\ ends' = Append(ends, "failed")
    /\ UNCHANGED <<config, files, catalog, persisted, state, now, si, target_files, fi,
                   written, records_streamed, activate_version, out, begun, ended, broke,
                   done, completed, atStart>>
    /\ UNCHANGED aux

\* sync(), line 148: singer.write_state(state), then the next file
WriteState ==
    /\ pc = "write_state"
    /\ out' = Append(out, StateMsg(state))
    /\ persisted' = state
    /\ fi' = fi + 1
    /\ written' = 0
    /\ pc' = LoopPc(target_files, fi + 1)
    /\ UNCHANGED <<config, files, catalog, state, now, si, target_files,
                   records_streamed, activate_version, ends, begun, ended, broke, done,
                   completed, atStart>>
    /\ UNCHANGED aux

\* sync(), lines 150-154: after the loop, the end epoch of a full-replace table
EndStream ==
    /\ pc = "end_stream"
    /\ out' = out \o EndEpochMsgs(stream, activate_version)
    /\ ended' = [ended EXCEPT ![stream] = @ + Len(EndEpochMsgs(stream, activate_version))]
    /\ si' = si + 1
    /\ pc' = "next_stream"
    /\ UNCHANGED <<config, files, catalog, persisted, state, now, target_files, fi,
                   written, records_streamed, activate_version, ends, begun, broke, done,
                   completed, atStart>>
    /\ UNCHANGED aux

\* sync() returns: every selected stream was visited
EndRun ==
    /\ pc = "next_stream"
    /\ si > Len(catalog)
    /\ pc' = "idle"
    /\ ends' = Append(ends, "normal")
    /\ UNCHANGED <<config, files, catalog, persisted, state, now, si, target_files, fi,
                   written, records_streamed, activate_version, out, begun, ended, broke,
                   done, completed, atStart>>
    /\ UNCHANGED aux

\* the process is terminated between two steps
Kill ==
    /\ pc # "idle"
    /\ pc' = "idle"
    /\ ends' = Append(ends, "killed")
    /\ UNCHANGED <<config, files, catalog, persisted, state, now, si, target_files, fi,
                   written, records_streamed, activate_version, out, begun, ended, broke,
                   done, completed, atStart>>
    /\ UNCHANGED aux

Next ==
    \/ StartRun
    \/ BeginStream
    \/ SkipStream
    \/ WriteRecord
    \/ WriteFileReturn
    \/ WriteState
    \/ EndStream
    \/ EndRun
    \/ Kill

Spec == Init /\ [][Next]_vars

SpecA == InitA /\ [][Next]_vars

\* ------------------------------------------------- two tables, failing writes
\* the files of a table, modified one after the other, none of them empty
TableWorlds(maxfiles) ==
    UNION {{{[key |-> k, last_modified |-> k + 1, nrecords |-> g[k]] : k \in 1..n}
              : g \in [1..n -> 1..MaxRecs]} : n \in 0..maxfiles}

\* the files of the second table: none, or one file of MaxRecs records
SmallWorlds == {{}, {[key |-> 1, last_modified |-> 2, nrecords |-> MaxRecs]}}

\* the state file may hold an entry of a stream the configuration no longer declares
StateFiles == {EmptyDict, [s \in {NoConfigStream} |-> [modified_since |-> Iso(2)]]}

\* the selected streams: the two tables in either order, the unmatched stream anywhere
Catalogs ==
    {<<NoConfigStream, "t1", "t2">>, <<"t1", NoConfigStream, "t2">>,
     <<"t2", "t1", NoConfigStream>>}

InitT == \E tables \in [{"t1", "t2"} -> TableSpecs], w1 \in TableWorlds(MaxFiles),
            w2 \in SmallWorlds, streams \in Catalogs, st \in StateFiles :
            /\ ~tables["t2"].full_table_replace
            /\ tables["t2"].max_records_per_run \in {0 - 1, 1}
            /\ Start(tables, [t \in {"t1", "t2"} |-> IF t = "t1" THEN w1 ELSE w2], streams, st)
            /\ raw = NoRaw
            /\ disc = NoDisc
            /\ ov = NoOv

\* an invocation runs to its end, or ends at a write_file call that raises
NextT ==
    \/ StartRun
    \/ BeginStream
    \/ SkipStream
    \/ WriteRecord
    \/ WriteFileReturn
    \/ WriteFileRaises
    \/ WriteState
    \/ EndStream
    \/ EndRun

SpecTables == InitT /\ [][NextT]_vars

\* one table whose files may share a modification time, failing writes
SpecFail == Init /\ [][NextT]_vars

\* ================================================================ claims
\* the watermark a state dict holds for a table: the one a run starting from it uses
WatermarkOf(st, t) ==
    IF t \in DOMAIN st THEN Parse(st[t].modified_since) ELSE Parse(config[t].start_date)

\* the files of table t a run starting at watermark w has as candidates
CandidatesAt(t, w) == {f \in files[t] : f.last_modified > w}

\* every record of file f of table t was emitted in the current run / in some run
AllEmittedInRun(t, f) == <<t, f.key>> \in done \/ f.nrecords = 0
AllEmittedInSomeRun(t, f) == <<t, f.key>> \in completed \/ f.nrecords = 0

AfterRun == pc = "idle" /\ ends # << >>
AfterNormalRun == AfterRun /\ ends[Len(ends)] = "normal"

\* the positions of out holding a message of this type for table t
Positions(t, type) ==
    {i \in 1..Len(out) : out[i].type = type /\ out[i].stream = t}

\* C1: with a positive budget, after a run that was not terminated every file that was a candidate of the run
\* and whose modification time is <= the persisted watermark had all of its records
\* emitted in the run: the watermark never covers a file the budget cut off.
C1_WatermarkCoversOnlyFullFiles ==
    AfterNormalRun =>
        \A t \in Tables :
            config[t].max_records_per_run > 0 =>
                \A f \in CandidatesAt(t, WatermarkOf(atStart.persisted, t)) :
                    f.last_modified <= WatermarkOf(persisted, t) => AllEmittedInRun(t, f)

\* C2: once a candidate file has streamed to its end within the budget (its record
\* count <= the remaining budget, equality included), a STATE message carrying that
\* file's modification time as the watermark has been written before the next file
\* starts streaming and before the table's run ends.
C2_CompletedFileIsCheckpointed ==
    pc \in {"write_file", "end_stream"} =>
        \A j \in 1..Len(target_files) :
            (/\ <<stream, target_files[j].key>> \in done
             /\ (pc = "end_stream" \/ fi > j))
            => \E i \in 1..Len(out) :
                   /\ out[i].type = "STATE"
                   /\ stream \in DOMAIN out[i].value
                   /\ out[i].value[stream] =
                          [modified_since |-> Iso(target_files[j].last_modified)]

\* C3: a file newer than start_date whose records were never all emitted in a single
\* run is still newer than the persisted watermark, so a run that starts from the
\* persisted state (after a normal end, a truncation or a termination) selects it.
C3_NoUnfinishedFileBehindWatermark ==
    \A t \in Tables :
        \A f \in files[t] :
            (/\ f.last_modified > Parse(config[t].start_date)
             /\ ~AllEmittedInSomeRun(t, f))
            => f.last_modified > WatermarkOf(persisted, t)

\* C4: a run that ends normally, had at least one candidate file and a positive (or
\* unbounded) budget has advanced the persisted watermark or streamed to its end a
\* file that no earlier run had streamed to its end.
C4_EveryRunMakesProgress ==
    AfterNormalRun =>
        \A t \in Tables :
            CandidatesAt(t, WatermarkOf(atStart.persisted, t)) # {}
            => \/ WatermarkOf(persisted, t) > WatermarkOf(atStart.persisted, t)
               \/ completed # atStart.completed

\* C5: the watermark of a table never decreases: each checkpoint persists a value >=
\* the one persisted before it (within a run and from one run to the next), and each
\* assignment to state[table] inside a run is >= the value the dict held.
C5_WatermarkMonotonic ==
    [][\A t \in Tables :
          /\ WatermarkOf(persisted', t) >= WatermarkOf(persisted, t)
          /\ (pc # "idle" /\ state' # state)
             => WatermarkOf(state', t) >= WatermarkOf(state, t)]_vars

\* C5 witness: a run that started from a checkpointed watermark has checkpointed a
\* later one.
C5_Witness ==
    /\ "t1" \in DOMAIN atStart.persisted
    /\ WatermarkOf(persisted, "t1") > WatermarkOf(atStart.persisted, "t1")

\* C6: a full-replace table gets the begin-epoch signal once in its lifetime: over
\* all runs, whatever they found and however they ended, at most one was written.
C6_BeginEpochOnce ==
    \A t \in Tables : config[t].full_table_replace => begun[t] <= 1

\* the run stopped table t on the budget with a candidate file not fully emitted
Truncated(t) ==
    /\ t \in broke
    /\ \E f \in CandidatesAt(t, WatermarkOf(atStart.persisted, t)) : ~AllEmittedInRun(t, f)

\* C7: after a run of a full-replace table that was not terminated, exactly one
\* end-epoch signal was written if the file loop ran through every candidate without
\* reaching the budget, and none if the budget stopped the run short of a file's end.
C7_EndEpochOnlyWhenNotTruncated ==
    AfterNormalRun =>
        \A t \in Tables :
            config[t].full_table_replace =>
                /\ t \notin broke => ended[t] = 1
                /\ Truncated(t) => ended[t] = 0

\* C8: a run of a full-replace table that starts from a persisted watermark at or
\* past every file writes no ACTIVATE_VERSION and no RECORD message for the table.
C8_NoSignalWithoutCandidates ==
    AfterNormalRun =>
        \A t \in Tables :
            (/\ config[t].full_table_replace
             /\ t \in DOMAIN atStart.persisted
             /\ CandidatesAt(t, WatermarkOf(atStart.persisted, t)) = {})
            => /\ Positions(t, "ACTIVATE_VERSION") = {}
               /\ Positions(t, "RECORD") = {}

\* the epoch signals and records of table t in out, in order
EpochsAndRecords(t) ==
    SelectSeq(out, LAMBDA m : m.type \in {"ACTIVATE_VERSION", "RECORD"} /\ m.stream = t)

\* every record of file f, in order, tagged v
FileRecords(t, f, v) == [i \in 1..f.nrecords |-> RecordMsg(t, f, i, v)]

RECURSIVE AllRecords(_, _, _)
AllRecords(t, fs, v) ==
    IF fs = << >> THEN << >>
    ELSE FileRecords(t, Head(fs), v) \o AllRecords(t, Tail(fs), v)

\* C9: a run of a full-replace table that starts without persisted state, is not
\* terminated and does not stop on the budget writes, for that table, begin-epoch(V),
\* then every record of every candidate file in order, each tagged V, then
\* end-epoch(V), with one and the same V.
C9_FirstFullReplaceRun ==
    AfterNormalRun =>
        \A t \in Tables :
            (/\ config[t].full_table_replace
             /\ t \notin DOMAIN atStart.persisted
             /\ t \notin broke)
            => \E v \in 1..now :
                   EpochsAndRecords(t) =
                       <<ActivateVersionMsg(t, v)>>
                       \o AllRecords(t, SortFiles(CandidatesAt(t, Parse(config[t].start_date))), v)
                       \o <<ActivateVersionMsg(t, v)>>

\* C9 witness: such a run over two files, with at least two records written.
C9_Witness ==
    /\ AfterNormalRun
    /\ config["t1"].full_table_replace
    /\ "t1" \notin DOMAIN atStart.persisted
    /\ "t1" \notin broke
    /\ Cardinality(CandidatesAt("t1", Parse(config["t1"].start_date))) = 2
    /\ Cardinality(Positions("t1", "RECORD")) >= 2

\* the <<key, lineno>> of the records of table t in out, in order
RecordLines(t) ==
    LET recs == SelectSeq(out, LAMBDA m : m.type = "RECORD" /\ m.stream = t)
    IN  [i \in 1..Len(recs) |-> <<recs[i].key, recs[i].lineno>>]

FirstRunDone == pc = "idle" /\ ends = <<"normal">>
SecondRunDone == pc = "idle" /\ ends = <<"normal", "normal">>

\* what scenario A says of the records: 15 in the first run (the 10 of F1, the first
\* 5 of F2), and in the next run F2 again from its first record, all 10
ScenarioARecords ==
    /\ FirstRunDone =>
           RecordLines("t1") = [i \in 1..10 |-> <<1, i>>] \o [i \in 1..5 |-> <<2, i>>]
    /\ SecondRunDone =>
           RecordLines("t1") = [i \in 1..10 |-> <<2, i>>]

\* C10 as stated: scenario A, with the watermark still at the start value S after the
\* first run and at T2 after the second.
C10_ScenarioA_Original ==
    /\ ScenarioARecords
    /\ FirstRunDone => WatermarkOf(persisted, "t1") = Parse(config["t1"].start_date)
    /\ SecondRunDone => WatermarkOf(persisted, "t1") = 3

\* C10 amended: scenario A, with the watermark persisted at T1 after the first run (F1
\* was checkpointed, the truncated F2 was not) and at T2 after the second.
C10_ScenarioA ==
    /\ ScenarioARecords
    /\ FirstRunDone => persisted = [t \in {"t1"} |-> [modified_since |-> Iso(2)]]
    /\ SecondRunDone => persisted = [t \in {"t1"} |-> [modified_since |-> Iso(3)]]

\* C10 witness: the second run of scenario A has ended, F2 re-streamed in full.
C10_Witness ==
    /\ SecondRunDone
    /\ Cardinality(Positions("t1", "RECORD")) = 10
    /\ WatermarkOf(persisted, "t1") = 3

\* ------------------------------------------------------------------ C11
\* the records of file f of table t that out holds
RecordsOfFile(t, f) == {i \in Positions(t, "RECORD") : out[i].key = f.key}

\* the records of all the files in fs
RECURSIVE TotalRecords(_)
TotalRecords(fs) ==
    IF fs = {} THEN 0
    ELSE LET f == CHOOSE g \in fs : TRUE IN f.nrecords + TotalRecords(fs \ {f})

Min(a, b) == IF a <= b THEN a ELSE b

\* the candidate files of table t in the current run
RunCandidates(t) == CandidatesAt(t, WatermarkOf(atStart.persisted, t))

\* C11: per-run budget. With max_records_per_run = N > 0 a run never emits more than N
\* records of the table, and a write_file call is only begun while fewer than N records
\* of the table were emitted; a run that ends normally has emitted min(N, records of the
\* candidates) whatever the other table emitted. With -1 a run that ends normally has
\* emitted every record of every candidate file.
C11_PerRunBudget ==
    /\ \A t \in Tables :
          LET N == config[t].max_records_per_run
              emitted == Cardinality(Positions(t, "RECORD"))
          IN  /\ N > 0 => emitted <= N
              /\ AfterNormalRun /\ N > 0 =>
                    emitted = Min(N, TotalRecords(RunCandidates(t)))
              /\ AfterNormalRun /\ N < 0 =>
                    \A f \in RunCandidates(t) :
                        Cardinality(RecordsOfFile(t, f)) = f.nrecords
    /\ pc = "write_file" /\ config[stream].max_records_per_run > 0 =>
          Cardinality(Positions(stream, "RECORD")) - written
              < config[stream].max_records_per_run

\* C11 witness: a run ended normally in which t1 used up its budget before its last
\* candidate, while t2, unbounded, emitted every record of its file
C11_Witness ==
    /\ AfterNormalRun
    /\ config["t1"].max_records_per_run > 0
    /\ Cardinality(Positions("t1", "RECORD")) = config["t1"].max_records_per_run
    /\ \E f \in RunCandidates("t1") : RecordsOfFile("t1", f) = {}
    /\ config["t2"].max_records_per_run < 0
    /\ Positions("t2", "RECORD") # {}

\* ------------------------------------------------------------------ C12
AfterKilledRun == AfterRun /\ ends[Len(ends)] = "killed"

\* the files whose checkpoint the run wrote: write_state follows the files in order
CheckpointedInRun ==
    {target_files[j] : j \in 1..Cardinality({i \in 1..Len(out) : out[i].type = "STATE"})}

\* the files of table t the run emitted at least one record of
EmittedInRun(t) == {f \in files[t] : RecordsOfFile(t, f) # {}}

\* the files of table t a run starting from the state now persisted streams: its
\* candidates
NextCandidates(t) == CandidatesAt(t, WatermarkOf(persisted, t))

\* C12: crash-recovery window. A run streams the files modified after the watermark it
\* loaded, and no others; so when a run was terminated at any step, the run that
\* starts from the persisted state streams again at most one file the terminated run
\* emitted records of, and no file the terminated run wrote the checkpoint of.
C12_CrashRecoveryWindow ==
    /\ pc \in {"write_file", "write_state", "end_stream"} =>
          target_files = SortFiles(RunCandidates(stream))
    /\ AfterKilledRun =>
          \A t \in Tables :
              /\ Cardinality(NextCandidates(t) \cap EmittedInRun(t)) <= 1
              /\ NextCandidates(t) \cap CheckpointedInRun = {}

\* C12 witness: a run was terminated after it checkpointed one file and emitted records
\* of the next, which the new run will stream again
C12_Witness ==
    /\ AfterKilledRun
    /\ CheckpointedInRun \cap EmittedInRun("t1") # {}
    /\ NextCandidates("t1") \cap EmittedInRun("t1") # {}

\* ------------------------------------------------------------------ C13
AfterFailedRun == AfterRun /\ ends[Len(ends)] = "failed"

\* the positions of out holding a STATE message
StatePositions == {i \in 1..Len(out) : out[i].type = "STATE"}

\* the state the last checkpoint of the run wrote, or the one the run loaded
LastCheckpoint ==
    IF StatePositions = {} THEN atStart.persisted
    ELSE out[CHOOSE i \in StatePositions : \A j \in StatePositions : j <= i].value

\* C13: when write_file raised for t_file of a table, the persisted state is the one
\* the last checkpoint before the failing file wrote (the loaded one if there was none),
\* for every table, and the persisted watermark of the table is before the failing
\* file: it was not advanced to or past it.
C13_FailureKeepsWatermark ==
    AfterFailedRun =>
        /\ persisted = LastCheckpoint
        /\ WatermarkOf(persisted, stream) < t_file.last_modified

\* =========================================== override_schema_with_config
\* a Python value: a dict (its items by key) or anything else (a str, a list, a bool)
Dict(f) == [items |-> f]
Leaf(v) == [val |-> v]

\* isinstance(x, dict)
IsDict(x) == "items" \in DOMAIN x

\* d.get(key, default) of a mapping
Get(d, key, default) == IF key \in DOMAIN d THEN d[key] ELSE default

\* every mapping of some of the keys K to values in V
Partial(K, V) == UNION {[D -> V] : D \in SUBSET K}

Fields == {"a", "b"}
InferredTypes == {"integer", "string"}
DeclaredTypes == {"string", "null,number"}
Selected == {"True", "False"}

\* what inference gives a field: its type, and for some a format
FieldDefs ==
    {Dict([type |-> Leaf(ty)]) : ty \in InferredTypes}
        \cup {Dict([type |-> Leaf(ty), format |-> Leaf("date-time")]) : ty \in InferredTypes}

\* the inferred schema of discover(), or the catalog schema of sync()
InferredSchemas ==
    {Dict(("type" :> Leaf("object")) @@ ("properties" :> Dict(p)) @@ sel) :
        p \in Partial(Fields, FieldDefs),
        sel \in Partial({"selected"}, {Leaf(b) : b \in Selected})}

\* the keys of a table spec override_schema_with_config reads
OverrideSpecs ==
    {so @@ sel :
        so \in Partial({"schema_overrides"},
                       {Dict(o) : o \in Partial(Fields, {Dict([type |-> Leaf(ty)])
                                                            : ty \in DeclaredTypes})}),
        sel \in Partial({"selected"}, {Leaf(b) : b \in Selected})}

\* mutant: a key both mappings hold keeps the value of the first
MergeDictsFirstWins(first, second) ==
    Dict([key \in DOMAIN first.items \cup DOMAIN second.items |->
            IF key \in DOMAIN first.items THEN first.items[key] ELSE second.items[key]])

\* merge_dicts(first, second): the items of the dict it returns
RECURSIVE merge_dicts(_, _)
merge_dicts(first, second) ==
    Dict([key \in DOMAIN first.items \cup DOMAIN second.items |->
            IF key \in DOMAIN second.items
            THEN IF key \in DOMAIN first.items
                 THEN IF IsDict(first.items[key]) /\ IsDict(second.items[key])
                      THEN merge_dicts(first.items[key], second.items[key])
                      ELSE second.items[key]
                 ELSE second.items[key]
            ELSE first.items[key]])

\* override_schema = {'properties': ..., 'selected': ...}
override_schema(table_spec) ==
    Dict([properties |-> Get(table_spec, "schema_overrides", Dict(<< >>)),
          selected |-> Get(table_spec, "selected", Leaf("True"))])

override_schema_with_config(inferred_schema, table_spec) ==
    merge_dicts(inferred_schema, override_schema(table_spec))

\* mutant: to_return is first itself, not a copy
ToReturnIsFirst(first, fresh) == first

\* to_return = first.copy(): a new object, named by a fresh cell of the heap
to_return(first, fresh) == fresh

\* the heap after merge_dicts ran on the objects in the cells first and second: the
\* assignments of its loop go to the object to_return names
HeapAfterMerge(heap, first, second, fresh) ==
    [heap EXCEPT ![to_return(first, fresh)] = merge_dicts(heap[first], heap[second])]

\* the sync state machine at rest, with no table
AtRest == Start(<< >>, << >>, << >>, EmptyDict)

InitSchema ==
    /\ AtRest
    /\ raw = NoRaw
    /\ disc = NoDisc
    /\ \E s \in InferredSchemas, t \in OverrideSpecs :
          ov = [pc |-> "inferred", inferred_schema |-> s, table_spec |-> t,
                heap |-> [schema |-> s, override |-> override_schema(t),
                          merged |-> Dict(<< >>), remerged |-> Dict(<< >>)],
                merged_schema |-> Dict(<< >>), remerged_schema |-> Dict(<< >>)]

\* discover(), line 68: the override applied to the inferred schema
OverrideAtDiscovery ==
    /\ ov.pc = "inferred"
    /\ LET heap == HeapAfterMerge(ov.heap, "schema", "override", "merged")
       IN  ov' = [ov EXCEPT !.pc = "discovered", !.heap = heap,
                            !.merged_schema = heap[to_return("schema", "merged")]]
    /\ UNCHANGED <<config, files, catalog, persisted, state, now, pc, si, target_files, fi,
                   written, records_streamed, activate_version, out, ends, begun, ended,
                   broke, done, completed, atStart, raw, disc>>

\* sync(), line 103: the override applied again to the schema of the catalog
OverrideAtSync ==
    /\ ov.pc = "discovered"
    /\ LET heap == HeapAfterMerge(ov.heap, "merged", "override", "remerged")
       IN  ov' = [ov EXCEPT !.pc = "synced", !.heap = heap,
                            !.remerged_schema = heap[to_return("merged", "remerged")]]
    /\ UNCHANGED <<config, files, catalog, persisted, state, now, pc, si, target_files, fi,
                   written, records_streamed, activate_version, out, ends, begun, ended,
                   broke, done, completed, atStart, raw, disc>>

NextSchema ==
    \/ OverrideAtDiscovery
    \/ OverrideAtSync

SpecSchema == InitSchema /\ [][NextSchema]_vars

\* ------------------------------------------------------------------ C14
\* the fields the table spec overrides, and the properties of a schema
Overridden == DOMAIN Get(ov.table_spec, "schema_overrides", Dict(<< >>)).items
PropertiesOf(schema) == schema.items["properties"].items

\* C14: in the schema override_schema_with_config returns, every field named in
\* schema_overrides has exactly the declared type, inferred or not, and every other
\* field of the inferred schema is there with its definition unchanged.
C14_OverrideWins ==
    ov.pc # "inferred" =>
        LET result == PropertiesOf(ov.merged_schema)
            inferred == PropertiesOf(ov.inferred_schema)
        IN  /\ \A f \in Overridden :
                  /\ f \in DOMAIN result
                  /\ result[f].items["type"]
                        = ov.table_spec["schema_overrides"].items[f].items["type"]
            /\ \A f \in DOMAIN inferred \ Overridden :
                  /\ f \in DOMAIN result
                  /\ result[f] = inferred[f]

\* C14 witness: one field overridden to a type other than the inferred one, and one
\* inferred field, with a format, left alone
C14_Witness ==
    /\ ov.pc = "discovered"
    /\ \E f \in Overridden \cap DOMAIN PropertiesOf(ov.inferred_schema) :
          PropertiesOf(ov.inferred_schema)[f].items["type"]
              # PropertiesOf(ov.merged_schema)[f].items["type"]
    /\ \E g \in DOMAIN PropertiesOf(ov.inferred_schema) \ Overridden :
          "format" \in DOMAIN PropertiesOf(ov.merged_schema)[g].items

\* ------------------------------------------------------------------ C19
\* C19: applying the override to a schema that already had it applied gives the same
\* schema, and merge_dicts leaves the objects it was given as they were: the inferred
\* schema and the override mapping in both calls, the merged schema in the second.
C19_OverrideIdempotent ==
    /\ ov.pc = "synced" => ov.remerged_schema = ov.merged_schema
    /\ ov.heap.schema = ov.inferred_schema
    /\ ov.heap.override = override_schema(ov.table_spec)
    /\ ov.pc # "inferred" => ov.heap.merged = ov.merged_schema

\* C19 witness: the override was applied twice and it changed the inferred schema
C19_Witness ==
    /\ ov.pc = "synced"
    /\ ov.merged_schema # ov.inferred_schema
    /\ Overridden # {}

\* ============================================================= discover()
\* the steps of the try block of discover(), lines 47-88
DiscoverSteps == {"selection", "sampling", "inference", "override"}

\* a declared table: its name, and the step of discovery that raises for it, if any
DeclaredTables == [name : 1..MaxTables, raises : DiscoverSteps \cup {"none"}]

\* config['tables']: any list of declared tables
TableLists == UNION {[1..n -> DeclaredTables] : n \in 0..MaxTables}

\* CatalogEntry(tap_stream_id=table_spec['name'], stream=table_spec['name'], ...)
CatalogEntry(table_spec) ==
    [tap_stream_id |-> table_spec.name, stream |-> table_spec.name]

\* except Exception as err: around all the steps of a table
Caught(step) == step \in DiscoverSteps

\* mutant: the handler starts the list of streams over
AfterErrorReset(streams) == << >>

\* the handler logs the error: the streams found so far stay
AfterError(streams) == streams

InitDiscover ==
    /\ AtRest
    /\ raw = NoRaw
    /\ ov = NoOv
    /\ \E tables \in TableLists :
          disc = [pc |-> "loop", tables |-> tables, i |-> 1, streams |-> << >>]

\* discover(), lines 47-88: every step succeeds, the entry is appended
DiscoverTable ==
    /\ disc.pc = "loop"
    /\ disc.i <= Len(disc.tables)
    /\ disc.tables[disc.i].raises = "none"
    /\ disc' = [disc EXCEPT !.streams = Append(@, CatalogEntry(disc.tables[disc.i])),
                            !.i = @ + 1]
    /\ UNCHANGED <<config, files, catalog, persisted, state, now, pc, si, target_files, fi,
                   written, records_streamed, activate_version, out, ends, begun, ended,
                   broke, done, completed, atStart, raw, ov>>

\* discover(), lines 89-90: a step raises, the handler logs and the loop goes on
DiscoverTableFails ==
    /\ disc.pc = "loop"
    /\ disc.i <= Len(disc.tables)
    /\ disc.tables[disc.i].raises # "none"
    /\ IF Caught(disc.tables[disc.i].raises)
       THEN disc' = [disc EXCEPT !.streams = AfterError(@), !.i = @ + 1]
       ELSE disc' = [disc EXCEPT !.pc = "raised"]
    /\ UNCHANGED <<config, files, catalog, persisted, state, now, pc, si, target_files, fi,
                   written, records_streamed, activate_version, out, ends, begun, ended,
                   broke, done, completed, atStart, raw, ov>>

\* discover(), line 92: return Catalog(streams)
DiscoverReturn ==
    /\ disc.pc = "loop"
    /\ disc.i > Len(disc.tables)
    /\ disc' = [disc EXCEPT !.pc = "returned"]
    /\ UNCHANGED <<config, files, catalog, persisted, state, now, pc, si, target_files, fi,
                   written, records_streamed, activate_version, out, ends, begun, ended,
                   broke, done, completed, atStart, raw, ov>>

NextDiscover ==
    \/ DiscoverTable
    \/ DiscoverTableFails
    \/ DiscoverReturn

SpecDiscover == InitDiscover /\ [][NextDiscover]_vars

\* ------------------------------------------------------------------ C15
\* the entries of the tables among the first n declared whose steps all succeed, in
\* declaration order
RECURSIVE ExpectedStreams(_, _)
ExpectedStreams(tables, n) ==
    IF n = 0 THEN << >>
    ELSE ExpectedStreams(tables, n - 1)
            \o (IF tables[n].raises = "none" THEN <<CatalogEntry(tables[n])>> ELSE << >>)

\* C15: discover() never raises, whichever tables fail at whichever step; the catalog
\* it returns holds, in declaration order, one entry for each table whose steps all
\* succeeded and none for a failing table, and so do the streams at every iteration.
C15_DiscoverSkipsFailingTables ==
    /\ disc.pc # "raised"
    /\ disc.pc = "loop" => disc.streams = ExpectedStreams(disc.tables, disc.i - 1)
    /\ disc.pc = "returned" =>
          disc.streams = ExpectedStreams(disc.tables, Len(disc.tables))

\* C15 witness: discover() returned after a table succeeded, the next one failed and
\* a third succeeded
C15_Witness ==
    /\ disc.pc = "returned"
    /\ \E i \in 1..Len(disc.tables) - 2 :
          /\ disc.tables[i].raises = "none"
          /\ disc.tables[i + 1].raises # "none"
          /\ disc.tables[i + 2].raises = "none"
    /\ Len(disc.streams) = 2

\* ------------------------------------------------------------------ C16
\* what the file loop of table t writes from file i of fs on, and the state it leaves
RECURSIVE ExpectedLoop(_, _, _, _, _, _)
ExpectedLoop(t, fs, i, streamed, st, v) ==
    IF i > Len(fs) THEN [out |-> << >>, state |-> st]
    ELSE LET N == config[t].max_records_per_run
             n == IF N - streamed > 0 THEN Min(fs[i].nrecords, N - streamed)
                  ELSE fs[i].nrecords
             records == [k \in 1..n |-> RecordMsg(t, fs[i], k, v)]
         IN  IF BudgetReached(N, streamed + n)
             THEN [out |-> records, state |-> st]
             ELSE LET rest == ExpectedLoop(t, fs, i + 1, streamed + n,
                                           SetState(st, t, fs[i]), v)
                  IN  [out |-> records \o <<StateMsg(SetState(st, t, fs[i]))>> \o rest.out,
                       state |-> rest.state]

\* what sync() writes for the configured stream t from state st, and the state it leaves
ExpectedStream(t, st) ==
    LET ftr == config[t].full_table_replace
        v == IF ftr THEN now ELSE None
        loop == ExpectedLoop(t, get_matching_objects(t, ModifiedSince(st, t)), 1, 0, st, v)
    IN  [out |-> BeginMsgs(t, ftr /\ IsInitialSync(st, t), v) \o loop.out
                    \o EndEpochMsgs(t, v),
         state |-> loop.state]

\* what sync() writes for the configured streams ts, one after the other
RECURSIVE ExpectedSync(_, _)
ExpectedSync(ts, st) ==
    IF ts = << >> THEN [out |-> << >>, state |-> st]
    ELSE LET head == ExpectedStream(Head(ts), st)
             rest == ExpectedSync(Tail(ts), head.state)
         IN  [out |-> head.out \o rest.out, state |-> rest.state]

\* the selected streams that have a config block, in the order of the catalog
ConfiguredStreams == SelectSeq(catalog, HasTableSpec)

\* C16: a selected stream without a config block is skipped. No SCHEMA, RECORD or
\* ACTIVATE_VERSION message carries its name, its entry in the persisted state stays as
\* the run found it, a run never fails at it, and a run that ends normally has written
\* exactly the messages, and persisted exactly the state, of a sync of the configured
\* streams alone.
C16_UnmatchedStreamSkipped ==
    /\ \A i \in 1..Len(out) : out[i].type # "STATE" => HasTableSpec(out[i].stream)
    /\ \A s \in (DOMAIN persisted \cup DOMAIN atStart.persisted) \ Tables :
          /\ s \in DOMAIN persisted \cap DOMAIN atStart.persisted
          /\ persisted[s] = atStart.persisted[s]
    /\ AfterFailedRun => HasTableSpec(stream)
    /\ AfterNormalRun =>
          /\ out = ExpectedSync(ConfiguredStreams, atStart.persisted).out
          /\ persisted = ExpectedSync(ConfiguredStreams, atStart.persisted).state

\* C16 witness: a run ended normally that skipped the unmatched stream between the two
\* tables, wrote records of both, and found a state entry of the unmatched stream
C16_Witness ==
    /\ AfterNormalRun
    /\ catalog[2] = NoConfigStream
    /\ NoConfigStream \in DOMAIN persisted
    /\ Positions("t1", "RECORD") # {}
    /\ Positions("t2", "RECORD") # {}

\* ------------------------------------------------------------------ C18
\* the entry of stream s is the same in the state dicts a and b, or in neither
SameEntry(a, b, s) ==
    /\ s \in DOMAIN a <=> s \in DOMAIN b
    /\ s \in DOMAIN a => a[s] = b[s]

\* C18: frame of a checkpoint. The state a checkpoint is about to write differs from
\* the persisted one in the entry of the table being synced alone, and that entry is
\* exactly {'modified_since': mtime of the file just completed}; what is persisted is
\* what was assigned; the entry of a table changes in a run only to the mtime of one
\* of its candidates, so a table without candidates leaves the state as it was.
C18_CheckpointFrame ==
    /\ pc = "write_state" =>
          /\ state[stream] = [modified_since |-> Iso(t_file.last_modified)]
          /\ \A s \in (DOMAIN state \cup DOMAIN persisted) \ {stream} :
                SameEntry(state, persisted, s)
    /\ pc \in {"next_stream", "write_file", "end_stream"} => state = persisted
    /\ \A s \in DOMAIN persisted \cup DOMAIN atStart.persisted :
          \/ SameEntry(persisted, atStart.persisted, s)
          \/ /\ s \in Tables
             /\ \E f \in RunCandidates(s) :
                   persisted[s] = [modified_since |-> Iso(f.last_modified)]

\* C18 witness: t2 is about to checkpoint its file while the state holds the entry t1
\* checkpointed earlier in the run and the entry of the unmatched stream
C18_Witness ==
    /\ pc = "write_state"
    /\ stream = "t2"
    /\ "t1" \in DOMAIN persisted
    /\ NoConfigStream \in DOMAIN persisted
    /\ "t2" \notin DOMAIN persisted

\* ------------------------------------------------------------------ C20
\* the positions of out holding a SCHEMA message, of any stream
SchemaPositions == {i \in 1..Len(out) : out[i].type = "SCHEMA"}

\* the STATE messages written while table t was synced: those whose nearest SCHEMA
\* before them is the one of t
StatesOf(t) ==
    {p \in StatePositions :
        \E i \in Positions(t, "SCHEMA") :
            i < p /\ \A k \in SchemaPositions : k < p => k <= i}

\* the messages of table t other than its SCHEMA
MessagesOf(t) ==
    Positions(t, "ACTIVATE_VERSION") \cup Positions(t, "RECORD") \cup StatesOf(t)

\* C20: message ordering. In one run a configured stream has at most one SCHEMA
\* message, exactly one once the run has ended normally (candidates or not), and it
\* comes before every ACTIVATE_VERSION, RECORD and STATE message of the stream; every
\* STATE message is written within a stream; the j-th STATE message of a stream comes
\* after all the records of its j-th candidate file, all of which were written, and
\* before every record of the later files.
C20_MessageOrder ==
    /\ \A p \in StatePositions : \E t \in Tables : p \in StatesOf(t)
    /\ \A t \in Tables :
          LET fs == SortFiles(RunCandidates(t))
          IN  /\ Cardinality(Positions(t, "SCHEMA")) <= 1
              /\ AfterNormalRun => Cardinality(Positions(t, "SCHEMA")) = 1
              /\ \A m \in MessagesOf(t) : \E s \in Positions(t, "SCHEMA") : s < m
              /\ \A p \in StatesOf(t) :
                    LET j == Cardinality({q \in StatesOf(t) : q <= p})
                    IN  /\ j <= Len(fs)
                        /\ Cardinality(RecordsOfFile(t, fs[j])) = fs[j].nrecords
                        /\ \A r \in RecordsOfFile(t, fs[j]) : r < p
                        /\ \A k \in (j + 1)..Len(fs) :
                              \A r \in RecordsOfFile(t, fs[k]) : p < r

\* C20 witness: a run ended normally in which full-replace t1 wrote a begin epoch and
\* checkpointed two files, and t2, without files, wrote its schema alone
C20_Witness ==
    /\ AfterNormalRun
    /\ Positions("t1", "ACTIVATE_VERSION") # {}
    /\ Cardinality(StatesOf("t1")) = 2
    /\ files["t2"] = {}
    /\ Cardinality(Positions("t2", "SCHEMA")) = 1

\* ================================================================= main()
\* CONFIG_CONTRACT: the keys of a table, and the values each may hold. A value is
\* modelled by its Python type, the format by its text.
RequiredKeys == {"path", "name", "pattern", "start_date", "key_properties", "format"}
OptionalKeys ==
    {"invalid_format_action", "universal_newlines", "selected", "field_names",
     "search_prefix", "worksheet_name", "delimiter", "quotechar", "sample_rate",
     "max_sampling_read", "max_records_per_run", "max_sampled_files",
     "prefer_number_vs_integer", "full_table_replace", "schema_overrides"}
Formats == {"csv", "excel", "json", "detect"}

Allowed(key) ==
    CASE key \in {"path", "name", "pattern", "start_date", "search_prefix",
                  "worksheet_name", "delimiter", "quotechar"} -> {"str"}
      [] key \in {"key_properties", "field_names"} -> {"list of str"}
      [] key = "format" -> Formats
      [] key = "invalid_format_action" -> {"ignore", "fail"}
      [] key \in {"universal_newlines", "selected", "prefer_number_vs_integer",
                  "full_table_replace"} -> {"bool"}
      [] key \in {"sample_rate", "max_sampling_read", "max_records_per_run",
                  "max_sampled_files"} -> {"int"}
      [] key = "schema_overrides" -> {"dict of overrides"}
      [] OTHER -> {}

\* a table that passes the contract: the required keys, format csv
BaseTable ==
    [path |-> "str", name |-> "str", pattern |-> "str", start_date |-> "str",
     key_properties |-> "list of str", format |-> "csv"]

\* the table with one key less
Without(table, key) == [k \in DOMAIN table \ {key} |-> table[k]]

\* the tables of a configuration file: the base table; with one required key missing;
\* with another format, known or not; with a value of another type; with one more key,
\* declared or not, of the declared type or not
RawTables ==
    {BaseTable}
        \cup {Without(BaseTable, k) : k \in RequiredKeys}
        \cup {[BaseTable EXCEPT !.format = f] : f \in Formats \cup {"xml"}}
        \cup {[BaseTable EXCEPT !.start_date = "int"], [BaseTable EXCEPT !.key_properties = "str"]}
        \cup {BaseTable @@ (k :> v) :
                k \in {"max_records_per_run", "full_table_replace", "bogus"},
                v \in {"int", "bool"}}

\* mutant: the contract checks the keys and not the values
ValidateKeysOnly(tables) ==
    \A i \in 1..Len(tables) :
        /\ RequiredKeys \subseteq DOMAIN tables[i]
        /\ DOMAIN tables[i] \subseteq RequiredKeys \cup OptionalKeys

\* Config.validate(tables_config) does not raise
Validate(tables) ==
    \A i \in 1..Len(tables) :
        /\ RequiredKeys \subseteq DOMAIN tables[i]
        /\ DOMAIN tables[i] \subseteq RequiredKeys \cup OptionalKeys
        /\ \A k \in DOMAIN tables[i] : tables[i][k] \in Allowed(k)

\* the invocations of main(): the tables of args.config (for a crawl block, the tables
\* the crawl made of it), --discover or not, the tables discovery fails for
RawConfigs ==
    [pc : {"start"}, mode : {"discover", "sync"}, crawl : BOOLEAN, dumped : {FALSE},
     tables : UNION {[1..n -> RawTables] : n \in 1..2}, failing : {{}, {1}}]

InitMain ==
    /\ Start([t \in {"t1"} |-> [start_date |-> Iso(1), max_records_per_run |-> 0 - 1,
                                 full_table_replace |-> TRUE]],
             [t \in {"t1"} |-> {[key |-> 1, last_modified |-> 2, nrecords |-> 1]}],
             <<NoConfigStream, "t1">>, EmptyDict)
    /\ raw \in RawConfigs
    /\ disc = NoDisc
    /\ ov = NoOv

\* main(), line 177 is reached: directly, or after the crawl of lines 166-173
AtValidation == raw.pc = (IF raw.crawl THEN "crawled" ELSE "start")

\* main(), lines 165-173: crawl blocks are expanded and written to crawled-config.json
MainCrawl ==
    /\ raw.pc = "start"
    /\ raw.crawl
    /\ raw' = [raw EXCEPT !.pc = "crawled", !.dumped = TRUE]
    /\ UNCHANGED <<config, files, catalog, persisted, state, now, pc, si, target_files, fi,
                   written, records_streamed, activate_version, out, ends, begun, ended,
                   broke, done, completed, atStart, disc, ov>>

\* main(), line 177: Config.validate raises, main() ends
MainRejects ==
    /\ AtValidation
    /\ ~Validate(raw.tables)
    /\ raw' = [raw EXCEPT !.pc = "rejected"]
    /\ UNCHANGED <<config, files, catalog, persisted, state, now, pc, si, target_files, fi,
                   written, records_streamed, activate_version, out, ends, begun, ended,
                   broke, done, completed, atStart, disc, ov>>

\* main(), lines 179-181: discovery mode
MainDiscover ==
    /\ AtValidation
    /\ Validate(raw.tables)
    /\ raw.mode = "discover"
    /\ disc = NoDisc
    /\ disc' = [pc |-> "loop", i |-> 1, streams |-> << >>,
                tables |-> [i \in 1..Len(raw.tables) |->
                              [name |-> i,
                               raises |-> IF i \in raw.failing THEN "selection" ELSE "none"]]]
    /\ UNCHANGED <<config, files, catalog, persisted, state, now, pc, si, target_files, fi,
                   written, records_streamed, activate_version, out, ends, begun, ended,
                   broke, done, completed, atStart, raw, ov>>

\* main(), lines 183-190: sync mode
MainSync ==
    /\ AtValidation
    /\ Validate(raw.tables)
    /\ raw.mode = "sync"
    /\ StartRun

NextMain ==
    \/ MainCrawl
    \/ MainRejects
    \/ MainDiscover
    \/ DiscoverTable
    \/ DiscoverTableFails
    \/ DiscoverReturn
    \/ MainSync
    \/ BeginStream
    \/ SkipStream
    \/ WriteRecord
    \/ WriteFileReturn
    \/ WriteState
    \/ EndStream
    \/ EndRun

SpecMain == InitMain /\ [][NextMain]_vars

\* ------------------------------------------------------------------ C17
\* the configuration fails the contract in one of the ways the design names: a table
\* lacks a required key, or its format is none of the four
NamedFailure ==
    \E i \in 1..Len(raw.tables) :
        \/ ~(RequiredKeys \subseteq DOMAIN raw.tables[i])
        \/ "format" \in DOMAIN raw.tables[i] /\ raw.tables[i].format \notin Formats

\* every table has all the required keys and only declared keys, each with a value the
\* contract allows
WellFormed ==
    \A i \in 1..Len(raw.tables) :
        /\ RequiredKeys \subseteq DOMAIN raw.tables[i]
        /\ DOMAIN raw.tables[i] \subseteq RequiredKeys \cup OptionalKeys
        /\ \A k \in DOMAIN raw.tables[i] : raw.tables[i][k] \in Allowed(k)

\* neither discover() nor sync() has taken a step: nothing written, state as loaded
NothingDone ==
    /\ disc = NoDisc
    /\ pc = "idle"
    /\ out = << >>
    /\ ends = << >>
    /\ persisted = EmptyDict

\* C17: for a configuration that fails the contract, a missing required key and a
\* format outside csv, excel, json, detect included, main() is rejected at validation
\* and neither discover() nor sync() ever takes a step: no catalog, no message, no
\* change of the persisted state. A configuration with all required keys and only
\* declared keys, with values the contract allows, is never rejected.
C17_InvalidConfigRejectedFirst ==
    /\ NamedFailure \/ ~WellFormed => NothingDone
    /\ raw.pc = "rejected" => ~WellFormed /\ NothingDone
    /\ WellFormed => raw.pc # "rejected"

\* C17 witness: a configuration with a table of unknown format was rejected after the
\* crawl, with nothing done
C17_Witness ==
    /\ raw.pc = "rejected"
    /\ raw.crawl
    /\ \E i \in 1..Len(raw.tables) :
          /\ RequiredKeys \subseteq DOMAIN raw.tables[i]
          /\ raw.tables[i].format \notin Formats
    /\ NothingDone

====
